---- MODULE Spec2Model ----
(***************************************************************************)
(* tiptoe: an embeddable strong-only reference counter (TipToe), the       *)
(* counter protocol built on it (RefCounterExt: increment, decrement,      *)
(* acquire, Exclusivity) and the intrusive smart pointer Arc.              *)
(*                                                                         *)
(* The model is of the "sync" build (AtomicUsize).  Every access to the    *)
(* shared counter is one step: fetch_add, fetch_sub and load are atomic;   *)
(* Exclusivity::new reads and writes the counter through a raw pointer,    *)
(* in two separate non-atomic accesses.  What a thread does with its own   *)
(* locals between two accesses of shared memory belongs to the step of the *)
(* access before it.                                                       *)
(***************************************************************************)
EXTENDS Integers, FiniteSets

\* ---------------------------------------------------------------- bounds
\* Width of usize in bits (scaled down from 64).
UsizeBits == 4
\* Heap addresses 1..MaxPayloads; an address is never handed out twice.
MaxPayloads == 2
\* Handle variables (places that can hold an Arc) 1..MaxHandles.
MaxHandles == 2

\* Two threads share the handles and the payloads.
Threads == {1, 2}
Payloads == 1..MaxPayloads
Handles == 1..MaxHandles
NULL == 0

\* ------------------------------------------------------------- constants
Modulus == 2 ^ UsizeBits
USIZE_MAX == Modulus - 1
ISIZE_MAX == 2 ^ (UsizeBits - 1) - 1
EXCLUSIVITY_MARKER == USIZE_MAX - (USIZE_MAX - ISIZE_MAX) \div 2

\* ----------------------------------------------------------------- state
VARIABLES
    refcount,   \* refcount[p]: TipToe::refcount embedded in the payload at address p
    mem,        \* mem[p]: "unalloc", "live" (a Box holds a payload there), "freed"
                \* (payload dropped, storage freed) or "moved" (payload moved
                \* out, storage freed)
    drops,      \* drops[p]: how often the payload at p was finalized (dropped and freed)
    ptr,        \* ptr[h]: Arc::pointer of handle variable h, NULL when h holds no Arc
    raw,        \* raw[h]: the NonNull that Arc::leak returned into variable h,
                \* NULL when h holds no such pointer
    th,         \* th[t]: the call thread t is in: program counter and locals
    tok,        \* tok[t]: the Exclusivity thread t holds, NoTok when none
    aborted,    \* abort() was called: the process is gone
    cnt,        \* cnt[b]: TipToe::refcount of a counter used on its own in build
                \* b, an AtomicUsize with the "sync" feature and a Cell without
    res,        \* res[b]: the last RefCounterExt call a single thread made on
                \* cnt[b]: operation, count before, outcome, count after
    inc,        \* inc[t]: thread t's increment in progress on cnt["sync"]
    gone        \* gone[b]: abort() was called in the process of build b

\* The handles and what they point to.
arcVars == <<refcount, mem, drops, ptr, raw, th, tok, aborted>>

\* The counters used on their own.
counterVars == <<cnt, res, inc, gone>>

vars == <<refcount, mem, drops, ptr, raw, th, tok, aborted, cnt, res, inc, gone>>

\* The two builds of the crate: with the "sync" feature the counter is an
\* AtomicUsize, without it a Cell<usize>.
Builds == {"sync", "cell"}

\* No call made yet.
NoCall == [op |-> "none", pre |-> 0, ret |-> "none", post |-> 0]

\* Thread t is in no increment.
NoInc == [pc |-> "idle", old |-> 0]

\* A thread outside any call.  pc, op, h, p, old and ret are the call's
\* position, operands, local (old_count, the loaded or the displaced count) and
\* result.  lastw and raced record what other threads did to the counter while
\* the call was in progress: lastw the last write of another thread ("none",
\* "release" for an Exclusivity dropped that wrote back 1, "other"), raced
\* whether an Exclusivity on the counter was dropped while the call waited to
\* roll back.  U is the type parameter of a downcast.  val is the count in
\* the counter of the value that try_unwrap hands to its caller.
Idle == [pc |-> "idle", op |-> "none", h |-> NULL, p |-> NULL, old |-> 0,
         ret |-> "none", lastw |-> "none", raced |-> FALSE, U |-> "none",
         val |-> 0]

\* No Exclusivity.  An Exclusivity holds the address of the counter (p) and
\* displaced_refcount and has no lifetime; h is the handle variable its
\* ExclusivePin borrows (NULL: it is in none), clean whether no other thread
\* wrote the counter during the acquire that made it.
NoTok == [p |-> NULL, displaced |-> 0, h |-> NULL, clean |-> TRUE]

\* ------------------------------------------------- counter arithmetic
\* Faulty variant of WrappingAdd: a load where the fetch_add should be.
WrappingAddStuck(c) == c

\* AtomicUsize::fetch_add(1) / fetch_sub(1): wrapping.
WrappingAdd(c) == (c + 1) % Modulus

\* Faulty variant of WrappingSub: a load where the fetch_sub should be.
WrappingSubStuck(c) == c

WrappingSub(c) == (c + Modulus - 1) % Modulus

\* Faulty variant of IncrementBranch: no arm for the exclusivity range, every
\* count from isize::MAX up aborts.
IncrementBranchNoMarker(old_count) ==
    IF old_count >= ISIZE_MAX THEN "abort" ELSE "ok"

\* Faulty variant of IncrementBranch: no limit below the exclusivity range.
IncrementBranchNoLimit(old_count) ==
    IF old_count >= EXCLUSIVITY_MARKER THEN "rollback" ELSE "ok"

\* RefCounterExt::increment after its fetch_add returned old_count:
\* "ok" (return), "rollback" (exclusive borrow seen: fetch_sub, then panic or
\* abort) or "abort" (count too high).
IncrementBranch(old_count) ==
    IF old_count >= ISIZE_MAX
    THEN IF old_count >= EXCLUSIVITY_MARKER THEN "rollback" ELSE "abort"
    ELSE "ok"

\* Faulty variant of RollbackBranch: the value fetch_sub returns is ignored.
RollbackBranchPanics(seen) == "panic"

\* RefCounterExt::increment after the rollback's fetch_sub returned `seen`.
RollbackBranch(seen) ==
    IF seen > EXCLUSIVITY_MARKER THEN "panic" ELSE "abort"

\* Faulty variant of DecrementFollowup: matches on the count after the
\* subtraction being 1.
DecrementFollowupNewCount(old_count) ==
    IF old_count - 1 = 1 THEN "DropOrMoveIt" ELSE "LeakIt"

\* Faulty variant of DecrementFollowup: matches on 0, as if fetch_sub returned
\* the count after the subtraction.
DecrementFollowupZero(old_count) ==
    IF old_count = 0 THEN "DropOrMoveIt" ELSE "LeakIt"

\* RefCounterExt::decrement: the followup for the value fetch_sub returned.
DecrementFollowup(old_count) ==
    IF old_count = 1 THEN "DropOrMoveIt" ELSE "LeakIt"

\* RefCounterExt::decrement_relaxed: the match on the value fetch_sub
\* returned; the exclusivity range aborts.
DecrementRelaxedFollowup(old_count) ==
    IF old_count >= EXCLUSIVITY_MARKER /\ old_count <= USIZE_MAX THEN "abort"
    ELSE IF old_count = 1 THEN "DropOrMoveIt" ELSE "LeakIt"

\* Faulty variant of AcquireBranch: exclusivity is never granted.
AcquireBranchNever(loaded) == "None"

\* Faulty variant of AcquireBranch: any counted payload is taken for unshared.
AcquireBranchAny(loaded) ==
    IF loaded >= 1 THEN "Some" ELSE "None"

\* RefCounterExt::acquire / acquire_relaxed: the match on the loaded value.
AcquireBranch(loaded) ==
    IF loaded = 1 THEN "Some" ELSE "None"

\* Exclusivity::new: the value written over the counter.
InstalledValue == EXCLUSIVITY_MARKER

\* Faulty variant of RestoredValue: the counter is reset, not restored.
RestoredValueReset(token) == 0

\* Drop for Exclusivity: the value written back.
RestoredValue(token) == token.displaced

\* The concrete types of the payloads.  The program hands values of the two
\* types to Arc::new in turn, so the payload at an odd address is an "A".
Types == {"A", "B"}

TypeOf(p) == IF p % 2 = 1 THEN "A" ELSE "B"

\* Faulty variant of DowncastMatches: the type test always passes.
DowncastMatchesAlways(p, U) == TRUE

\* Arc::downcast / downcast_pinned: the test Any::type_id(&*this) ==
\* TypeId::of::<U>() on the payload at p.
DowncastMatches(p, U) == TypeOf(p) = U

\* Faulty variant of LeakedPointer: the pointer is lost.
LeakedPointerLost(pointer) == NULL

\* Arc::leak: the pointer read from the handle before the handle is forgotten.
LeakedPointer(pointer) == pointer

\* NonNull::cast: the address is kept, only the pointee type changes.
Cast(pointer) == pointer

\* Faulty variant of CellIncrementBranch: no limit below the exclusivity range.
CellIncrementBranchNoLimit(old_count) ==
    IF old_count >= EXCLUSIVITY_MARKER THEN "panic" ELSE "ok"

\* RefCounterExt::increment without the "sync" feature, the branch on the
\* count read: "abort" (count too high), "panic" (exclusive borrow) or "ok"
\* (the count is set to old_count + 1).
CellIncrementBranch(old_count) ==
    IF old_count >= EXCLUSIVITY_MARKER - 1
    THEN IF old_count < EXCLUSIVITY_MARKER THEN "abort" ELSE "panic"
    ELSE "ok"

\* RefCounterExt::increment run by one thread on the count c in build b: the
\* outcome and the count it leaves.
IncrementCall(b, c) ==
    IF b = "sync"
    THEN LET added == WrappingAdd(c)
             branch == IncrementBranch(c)
         IN IF branch = "ok" THEN [ret |-> "ok", post |-> added]
            ELSE IF branch = "rollback"
            THEN [ret |-> RollbackBranch(added), post |-> WrappingSub(added)]
            ELSE [ret |-> "abort", post |-> added]
    ELSE IF CellIncrementBranch(c) = "ok"
         THEN [ret |-> "ok", post |-> c + 1]
         ELSE [ret |-> CellIncrementBranch(c), post |-> c]

\* The subtraction of decrement and decrement_relaxed without the "sync"
\* feature, old_count - 1, panics on 0 when the build checks arithmetic
\* overflow (checks) and wraps when it does not; fetch_sub always wraps.
SubtractPanics(b, c, checks) == b = "cell" /\ c = 0 /\ checks

\* RefCounterExt::decrement run on the count c in build b.
DecrementCall(b, c, checks) ==
    IF SubtractPanics(b, c, checks)
    THEN [ret |-> "panic", post |-> c]
    ELSE [ret |-> DecrementFollowup(c), post |-> WrappingSub(c)]

\* RefCounterExt::decrement_relaxed run on the count c in build b.
DecrementRelaxedCall(b, c, checks) ==
    IF SubtractPanics(b, c, checks)
    THEN [ret |-> "panic", post |-> c]
    ELSE [ret |-> DecrementRelaxedFollowup(c), post |-> WrappingSub(c)]

\* RefCounterExt::acquire run by one thread on the count c: load or get,
\* match, and on 1 Exclusivity::new, which leaves the marker.
AcquireCall(b, c) ==
    IF AcquireBranch(c) = "Some"
    THEN [ret |-> "Some", post |-> InstalledValue]
    ELSE [ret |-> "None", post |-> c]

Ops == {"increment", "decrement", "decrement_relaxed", "acquire"}

\* Operation op run by one thread on the count c in build b.
RunOp(b, op, c, checks) ==
    IF op = "increment" THEN IncrementCall(b, c)
    ELSE IF op = "decrement" THEN DecrementCall(b, c, checks)
    ELSE IF op = "decrement_relaxed" THEN DecrementRelaxedCall(b, c, checks)
    ELSE AcquireCall(b, c)

\* ------------------------------------------------------------- helpers
HandlesTo(p) == {h \in Handles : ptr[h] = p}

NumHandles(p) == Cardinality(HandlesTo(p))

\* Threads inside a call that borrows handle variable h.
Users(h) == {t \in Threads : th[t].pc # "idle" /\ th[t].h = h}

\* Threads whose ExclusivePin borrows handle variable h mutably.
Pinners(h) == {t \in Threads : tok[t].h = h}

\* h may be borrowed shared: it holds an Arc and nothing borrows it mutably.
Sharable(h) ==
    /\ ptr[h] # NULL
    /\ Pinners(h) = {}
    /\ \A t \in Users(h) : th[t].op \in {"clone", "clone_ref", "acquire_relaxed"}

\* h may be borrowed mutably or moved: it holds an Arc and nothing borrows it.
Exclusive(h) ==
    /\ ptr[h] # NULL
    /\ Pinners(h) = {}
    /\ Users(h) = {}

\* Handle variables holding nothing and named by no call.
FreeSlots == {h \in Handles : ptr[h] = NULL /\ raw[h] = NULL /\ Users(h) = {}}

\* The allocator hands out the lowest address not used yet.
Unallocated == {p \in Payloads : mem[p] = "unalloc"}

Lowest(S) == CHOOSE x \in S : \A y \in S : x <= y

\* Thread t writes the counter at p: the calls of the other threads in
\* progress on p record it.  kind is "release" for the drop of an Exclusivity
\* that writes back 1, "release_n" for one that writes back another value,
\* "other" for every other write.  To a call that is over, any write is
\* "other": its record then only says that the counter has moved on.
Disturb(t, p, kind) ==
    [u \in Threads |->
        IF u # t /\ th[u].pc # "idle" /\ th[u].p = p
        THEN [th[u] EXCEPT !.lastw = IF kind = "release" /\ th[u].pc # "ret"
                                     THEN kind ELSE "other",
                           !.raced = @ \/ (kind # "other" /\ th[u].pc = "inc_sub")]
        ELSE th[u]]

\* A reference to freed storage exists: a handle, an Exclusivity or a call in
\* progress points into a payload that was finalized.
Dangling ==
    \/ \E h \in Handles : ptr[h] # NULL /\ mem[ptr[h]] \in {"freed", "moved"}
    \/ \E t \in Threads : tok[t].p # NULL /\ mem[tok[t].p] \in {"freed", "moved"}
    \/ \E t \in Threads : /\ th[t].pc \notin {"idle", "ret"}
                          /\ mem[th[t].p] \in {"freed", "moved"}

\* The process runs: it has not aborted, and no reference dangles (what the
\* program does through a dangling reference is undefined; the model stops
\* at the state that holds one).
Running == ~aborted /\ ~Dangling

\* ------------------------------------------------------------------ Init
Init ==
    /\ refcount = [p \in Payloads |-> 0]
    /\ mem = [p \in Payloads |-> "unalloc"]
    /\ drops = [p \in Payloads |-> 0]
    /\ ptr = [h \in Handles |-> NULL]
    /\ raw = [h \in Handles |-> NULL]
    /\ th = [t \in Threads |-> Idle]
    /\ tok = [t \in Threads |-> NoTok]
    /\ aborted = FALSE
    /\ cnt = [b \in Builds |-> 0]
    /\ res = [b \in Builds |-> NoCall]
    /\ inc = [t \in Threads |-> NoInc]
    /\ gone = [b \in Builds |-> FALSE]

\* --------------------------------------------------------------- actions
\* Arc::new / Arc::pin on a value whose TipToe is fresh (count 0):
\* increment, Box::new, from_raw.  The value is the thread's own until the
\* handle exists, so this is one step.
New(t, h) ==
    /\ Running
    /\ th[t].pc = "idle"
    /\ h \in FreeSlots /\ h = Lowest(FreeSlots)
    /\ Unallocated # {}
    /\ LET p == Lowest(Unallocated) IN
       /\ IncrementBranch(0) = "ok"
       /\ refcount' = [refcount EXCEPT ![p] = WrappingAdd(0)]
       /\ mem' = [mem EXCEPT ![p] = "live"]
       /\ ptr' = [ptr EXCEPT ![h] = p]
       /\ th' = [th EXCEPT ![t] = [Idle EXCEPT !.pc = "ret", !.op = "new",
                                    !.h = h, !.p = p, !.ret = "ok"]]
    /\ UNCHANGED <<raw, drops, tok, aborted, counterVars>>

\* Arc::new / Arc::pin on a value whose TipToe already counts c, as
\* increment calls on the value before leave it: increment on the value,
\* which is the thread's own, then Box::new and from_raw.  An increment that
\* panics or aborts leaves no allocation and no handle.
Construct(t, h, c, op) ==
    /\ Running
    /\ h \in FreeSlots /\ h = Lowest(FreeSlots)
    /\ Unallocated # {}
    /\ LET p == Lowest(Unallocated)
           r == IncrementCall("sync", c)
           call == [Idle EXCEPT !.pc = "ret", !.op = op, !.old = c,
                                !.ret = r.ret]
       IN
       IF r.ret = "ok"
       THEN /\ refcount' = [refcount EXCEPT ![p] = r.post]
            /\ mem' = [mem EXCEPT ![p] = "live"]
            /\ ptr' = [ptr EXCEPT ![h] = p]
            /\ th' = [th EXCEPT ![t] = [call EXCEPT !.h = h, !.p = p]]
            /\ aborted' = aborted
       ELSE /\ th' = [th EXCEPT ![t] = call]
            /\ aborted' = (r.ret = "abort")
            /\ UNCHANGED <<refcount, mem, ptr>>
    /\ UNCHANGED <<raw, drops, tok, counterVars>>

\* Arc::new / Arc::pin on a value that increment was called on c times.
NewCounted(t, h, c) ==
    /\ th[t].pc = "idle"
    /\ Construct(t, h, c, "new")

\* Arc::new / Arc::pin on the value that thread t's try_unwrap has just
\* returned in Ok.
NewFromReturned(t, h) ==
    /\ th[t].pc = "ret" /\ th[t].op = "try_unwrap" /\ th[t].ret = "Ok"
    /\ Construct(t, h, th[t].val, "new_returned")

\* RefCounterExt::increment, the fetch_add and the branch on old_count, as
\* called by operation `op` of thread t on the counter at p through handle
\* variable h (NULL: through the reference an ExclusivePin gives).  On "ok"
\* Arc::clone builds the new handle, into the variable hn.
IncrementAdd(t, op, h, p) ==
    LET old_count == refcount[p]
        branch == IncrementBranch(old_count)
        call == [Idle EXCEPT !.op = op, !.h = h, !.p = p, !.old = old_count]
        dis == Disturb(t, p, "other")
    IN
    /\ refcount' = [refcount EXCEPT ![p] = WrappingAdd(old_count)]
    /\ IF branch = "ok"
       THEN /\ FreeSlots # {}
            /\ ptr' = [ptr EXCEPT ![Lowest(FreeSlots)] = p]
            /\ th' = [dis EXCEPT ![t] = [call EXCEPT !.pc = "ret", !.ret = "ok",
                                                      !.h = Lowest(FreeSlots)]]
            /\ aborted' = aborted
       ELSE IF branch = "rollback"
       THEN /\ ptr' = ptr
            /\ th' = [dis EXCEPT ![t] = [call EXCEPT !.pc = "inc_sub"]]
            /\ aborted' = aborted
       ELSE /\ ptr' = ptr
            /\ th' = [dis EXCEPT ![t] = [call EXCEPT !.pc = "ret", !.ret = "abort"]]
            /\ aborted' = TRUE
    /\ UNCHANGED <<raw, mem, drops, tok, counterVars>>

\* Arc::clone(&h).
Clone(t, h) ==
    /\ Running
    /\ th[t].pc = "idle"
    /\ Sharable(h)
    /\ IncrementAdd(t, "clone", h, ptr[h])

\* Arc::clone on the handle view reinterpreted from the payload reference
\* that thread t's own ExclusivePin hands out (borrow_pin_from_inner_ref).
CloneViaPin(t) ==
    /\ Running
    /\ th[t].pc = "idle"
    /\ tok[t].h # NULL
    /\ IncrementAdd(t, "clone", NULL, tok[t].p)

\* Arc::borrow_pin_from_inner_ref(&&*h).clone(): the reference to the payload
\* of handle h, which borrows h, is reinterpreted as a reference to a handle
\* and that is cloned.
CloneViaRef(t, h) ==
    /\ Running
    /\ th[t].pc = "idle"
    /\ Sharable(h)
    /\ IncrementAdd(t, "clone_ref", h, Cast(ptr[h]))

\* RefCounterExt::increment, the rollback: fetch_sub, then panic or abort.
IncrementRollback(t) ==
    /\ Running
    /\ th[t].pc = "inc_sub"
    /\ LET p == th[t].p
           seen == refcount[p]
           branch == RollbackBranch(seen)
       IN
       /\ refcount' = [refcount EXCEPT ![p] = WrappingSub(seen)]
       /\ th' = [Disturb(t, p, "other") EXCEPT ![t] = [th[t] EXCEPT !.pc = "ret", !.ret = branch]]
       /\ aborted' = (branch = "abort")
    /\ UNCHANGED <<raw, mem, drops, ptr, tok, counterVars>>

\* Drop for Arc: decrement (fetch_sub); the handle is gone with it.
Drop(t, h) ==
    /\ Running
    /\ th[t].pc = "idle"
    /\ Exclusive(h)
    /\ LET p == ptr[h]
           old_count == refcount[p]
           followup == DecrementFollowup(old_count)
           call == [Idle EXCEPT !.op = "drop", !.p = p, !.old = old_count, !.ret = followup]
       IN
       /\ refcount' = [refcount EXCEPT ![p] = WrappingSub(old_count)]
       /\ ptr' = [ptr EXCEPT ![h] = NULL]
       /\ th' = [Disturb(t, p, "other") EXCEPT ![t] =
                    [call EXCEPT !.pc = IF followup = "DropOrMoveIt" THEN "dec_free" ELSE "ret"]]
    /\ UNCHANGED <<raw, mem, drops, tok, aborted, counterVars>>

\* Drop for Arc, DropOrMoveIt: drop(Box::from_raw(pointer)) runs the payload's
\* destructor and frees its storage.
Finalize(t) ==
    /\ Running
    /\ th[t].pc = "dec_free"
    /\ mem' = [mem EXCEPT ![th[t].p] = "freed"]
    /\ drops' = [drops EXCEPT ![th[t].p] = @ + 1]
    /\ th' = [th EXCEPT ![t].pc = "ret"]
    /\ UNCHANGED <<raw, refcount, ptr, tok, aborted, counterVars>>

\* RefCounterExt::acquire / acquire_relaxed: the load and the match on it, as
\* called by operation `op` of thread t through handle variable h.  On None
\* the caller goes on at nonePc with the result noneRet.
AcquireLoad(t, op, h, nonePc, noneRet) ==
    LET p == ptr[h]
        loaded == refcount[p]
        call == [Idle EXCEPT !.op = op, !.h = h, !.p = p, !.old = loaded]
    IN
    /\ th' = [th EXCEPT ![t] =
                IF AcquireBranch(loaded) = "Some"
                THEN [call EXCEPT !.pc = "excl_read"]
                ELSE [call EXCEPT !.pc = nonePc, !.ret = noneRet]]
    /\ UNCHANGED <<raw, refcount, mem, drops, ptr, tok, aborted, counterVars>>

\* Arc::get_mut(&mut h): acquire, None when shared.
GetMut(t, h) ==
    /\ Running
    /\ th[t].pc = "idle"
    /\ tok[t] = NoTok
    /\ Exclusive(h)
    /\ AcquireLoad(t, "get_mut", h, "ret", "None")

\* Arc::make_mut(&mut h): acquire, and on None the copy-on-write path.
MakeMut(t, h) ==
    /\ Running
    /\ th[t].pc = "idle"
    /\ tok[t] = NoTok
    /\ Exclusive(h)
    /\ AcquireLoad(t, "make_mut", h, "mm_pin", "none")

\* Faulty variant of ClonedCount: the counter is copied with the payload.
ClonedCountCopied(source) == source

\* TipToe::clone: whatever the source counts, the copy's counter is the
\* default one.
ClonedCount(source) == 0

\* Arc::make_mut, *this = managed_clone().pipe(Self::pin): the copy is
\* counted (increment) and boxed, the old handle in *this is dropped
\* (decrement on the old payload) and the new one stored.
MakeMutReplace(t) ==
    /\ Running
    /\ th[t].pc = "mm_pin"
    /\ Unallocated # {}
    /\ IncrementBranch(ClonedCount(refcount[th[t].p])) = "ok"
    /\ LET p == th[t].p
           q == Lowest(Unallocated)
           old_count == refcount[p]
           followup == DecrementFollowup(old_count)
       IN
       /\ refcount' = [refcount EXCEPT ![q] = WrappingAdd(ClonedCount(old_count)),
                                       ![p] = WrappingSub(old_count)]
       /\ mem' = [mem EXCEPT ![q] = "live"]
       /\ ptr' = [ptr EXCEPT ![th[t].h] = q]
       /\ th' = [Disturb(t, p, "other") EXCEPT ![t] =
                    IF followup = "DropOrMoveIt"
                    THEN [th[t] EXCEPT !.pc = "mm_free", !.old = old_count]
                    ELSE [th[t] EXCEPT !.pc = "mm_load", !.old = old_count, !.p = q]]
    /\ UNCHANGED <<raw, drops, tok, aborted, counterVars>>

\* Arc::make_mut, the old handle's drop said DropOrMoveIt: the old payload is
\* finalized.
MakeMutFinalize(t) ==
    /\ Running
    /\ th[t].pc = "mm_free"
    /\ mem' = [mem EXCEPT ![th[t].p] = "freed"]
    /\ drops' = [drops EXCEPT ![th[t].p] = @ + 1]
    /\ th' = [th EXCEPT ![t].pc = "mm_load", ![t].p = ptr[th[t].h]]
    /\ UNCHANGED <<raw, refcount, ptr, tok, aborted, counterVars>>

\* Arc::make_mut, the second acquire, on the new handle:
\* .expect("unreachable") panics on None.
MakeMutAcquire(t) ==
    /\ Running
    /\ th[t].pc = "mm_load"
    /\ AcquireLoad(t, "make_mut", th[t].h, "ret", "panic")

\* RefCounterExt::acquire_relaxed called on h.ref_counter() through a shared
\* reference to the handle.
AcquireRelaxed(t, h) ==
    /\ Running
    /\ th[t].pc = "idle"
    /\ tok[t] = NoTok
    /\ Sharable(h)
    /\ AcquireLoad(t, "acquire_relaxed", h, "ret", "None")

\* Exclusivity::new: displaced_refcount: ptr.read().
ExclusivityRead(t) ==
    /\ Running
    /\ th[t].pc = "excl_read"
    /\ th' = [th EXCEPT ![t].pc = "excl_write", ![t].old = refcount[th[t].p]]
    /\ UNCHANGED <<raw, refcount, mem, drops, ptr, tok, aborted, counterVars>>

\* Exclusivity::new: ptr.write(EXCLUSIVITY_MARKER).  The Exclusivity of
\* get_mut and make_mut goes into an ExclusivePin, which borrows the handle
\* variable mutably; the one acquire_relaxed returns borrows nothing.
ExclusivityWrite(t) ==
    /\ Running
    /\ th[t].pc = "excl_write"
    /\ LET p == th[t].p IN
       /\ refcount' = [refcount EXCEPT ![p] = InstalledValue]
       /\ tok' = [tok EXCEPT ![t] =
                    [p |-> p, displaced |-> th[t].old,
                     h |-> IF th[t].op = "acquire_relaxed" THEN NULL ELSE th[t].h,
                     clean |-> th[t].lastw = "none"]]
       /\ th' = [Disturb(t, p, "other") EXCEPT ![t] =
                    IF th[t].op = "try_unwrap"
                    THEN [th[t] EXCEPT !.pc = "tu_excl"]
                    ELSE [th[t] EXCEPT !.pc = "ret", !.ret = "Some"]]
    /\ UNCHANGED <<raw, mem, drops, ptr, aborted, counterVars>>

\* Drop for Exclusivity (on its own or inside an ExclusivePin).
DropExclusivity(t) ==
    /\ Running
    /\ th[t].pc = "idle"
    /\ tok[t] # NoTok
    /\ LET p == tok[t].p IN
       /\ refcount' = [refcount EXCEPT ![p] = RestoredValue(tok[t])]
       /\ th' = [Disturb(t, p, IF RestoredValue(tok[t]) = 1 THEN "release" ELSE "release_n")
                    EXCEPT ![t] =
                    [Idle EXCEPT !.pc = "ret", !.op = "drop_excl", !.p = p,
                                 !.old = refcount[p], !.ret = "ok",
                                 !.lastw = IF tok[t].clean THEN "none" ELSE "other"]]
    /\ tok' = [tok EXCEPT ![t] = NoTok]
    /\ UNCHANGED <<raw, mem, drops, ptr, aborted, counterVars>>

\* mem::forget of the ExclusivePin that thread t got from get_mut: the
\* borrow of the handle variable ends, the Exclusivity inside is never
\* dropped.
Forget(t) ==
    /\ Running
    /\ th[t].pc = "idle"
    /\ tok[t].h # NULL
    /\ tok' = [tok EXCEPT ![t].h = NULL]
    /\ UNCHANGED <<raw, refcount, mem, drops, ptr, th, aborted, counterVars>>

\* Arc::try_unwrap(h): the handle is moved in; acquire, Err(this) on None.
TryUnwrap(t, h) ==
    /\ Running
    /\ th[t].pc = "idle"
    /\ tok[t] = NoTok
    /\ Exclusive(h)
    /\ AcquireLoad(t, "try_unwrap", h, "ret", "Err")

\* Arc::try_unwrap, drop(exclusivity): the count goes back into the counter.
TryUnwrapRelease(t) ==
    /\ Running
    /\ th[t].pc = "tu_excl"
    /\ LET p == th[t].p IN
       /\ refcount' = [refcount EXCEPT ![p] = RestoredValue(tok[t])]
       /\ th' = [Disturb(t, p, IF RestoredValue(tok[t]) = 1 THEN "release" ELSE "release_n")
                    EXCEPT ![t] = [th[t] EXCEPT !.pc = "tu_take"]]
    /\ tok' = [tok EXCEPT ![t] = NoTok]
    /\ UNCHANGED <<raw, mem, drops, ptr, aborted, counterVars>>

\* Arc::try_unwrap, ManuallyDrop::take and tap_mut: the payload is copied out
\* of the allocation, and decrement_relaxed runs on the counter inside the
\* copy; the counter in the allocation stays as it is.
TryUnwrapTake(t) ==
    /\ Running
    /\ th[t].pc = "tu_take"
    /\ LET copied == refcount[th[t].p]
           followup == DecrementRelaxedFollowup(copied)
       IN
       /\ th' = [th EXCEPT ![t] =
                    IF followup = "abort"
                    THEN [th[t] EXCEPT !.pc = "ret", !.ret = "abort"]
                    ELSE [th[t] EXCEPT !.pc = "tu_drop",
                                       !.val = WrappingSub(copied)]]
       /\ aborted' = (followup = "abort")
    /\ UNCHANGED <<raw, refcount, mem, drops, ptr, tok, counterVars>>

\* Arc::try_unwrap, the temporary Arc<ManuallyDrop<T>> goes out of scope:
\* Drop for Arc decrements the counter in the allocation.
TryUnwrapDropTemp(t) ==
    /\ Running
    /\ th[t].pc = "tu_drop"
    /\ LET p == th[t].p
           old_count == refcount[p]
           followup == DecrementFollowup(old_count)
       IN
       /\ refcount' = [refcount EXCEPT ![p] = WrappingSub(old_count)]
       /\ ptr' = [ptr EXCEPT ![th[t].h] = NULL]
       /\ th' = [Disturb(t, p, "other") EXCEPT ![t] =
                    IF followup = "DropOrMoveIt"
                    THEN [th[t] EXCEPT !.pc = "tu_free"]
                    ELSE [th[t] EXCEPT !.pc = "ret", !.ret = "Ok"]]
    /\ UNCHANGED <<raw, mem, drops, tok, aborted, counterVars>>

\* Arc::try_unwrap, DropOrMoveIt for the temporary: the Box<ManuallyDrop<T>> is
\* dropped, which frees the storage and runs no destructor.  The payload is
\* the caller's.
TryUnwrapFree(t) ==
    /\ Running
    /\ th[t].pc = "tu_free"
    /\ mem' = [mem EXCEPT ![th[t].p] = "moved"]
    /\ th' = [th EXCEPT ![t] = [th[t] EXCEPT !.pc = "ret", !.ret = "Ok"]]
    /\ UNCHANGED <<raw, refcount, drops, ptr, tok, aborted, counterVars>>

\* Arc::leak / leak_pinned: the handle in variable h is consumed without
\* running its drop, its pointer stays in h as a NonNull.  The counter is
\* not accessed.
Leak(t, h) ==
    /\ Running
    /\ th[t].pc = "idle"
    /\ Exclusive(h)
    /\ raw' = [raw EXCEPT ![h] = LeakedPointer(ptr[h])]
    /\ ptr' = [ptr EXCEPT ![h] = NULL]
    /\ th' = [th EXCEPT ![t] = [Idle EXCEPT !.pc = "ret", !.op = "leak",
                                 !.h = h, !.p = ptr[h],
                                 !.old = refcount[ptr[h]], !.ret = "ok"]]
    /\ UNCHANGED <<refcount, mem, drops, tok, aborted, counterVars>>

\* Arc::from_raw on the NonNull in variable h, which Arc::leak returned and
\* which is used up by the call: h holds a handle again.  The counter is not
\* accessed.
FromRaw(t, h) ==
    /\ Running
    /\ th[t].pc = "idle"
    /\ raw[h] # NULL /\ Users(h) = {}
    /\ ptr' = [ptr EXCEPT ![h] = raw[h]]
    /\ raw' = [raw EXCEPT ![h] = NULL]
    /\ th' = [th EXCEPT ![t] = [Idle EXCEPT !.pc = "ret", !.op = "from_raw",
                                 !.h = h, !.p = raw[h],
                                 !.old = refcount[raw[h]], !.ret = "ok"]]
    /\ UNCHANGED <<refcount, mem, drops, tok, aborted, counterVars>>

\* Arc::downcast::<U> / downcast_pinned::<U> of the handle in variable h:
\* on a match the handle is leaked, its pointer cast and made a handle
\* again by from_raw (Ok); otherwise the handle is given back (Err).  The
\* result is stored in h.
Downcast(t, h, U) ==
    /\ Running
    /\ th[t].pc = "idle"
    /\ Exclusive(h)
    /\ LET p == ptr[h] IN
       IF DowncastMatches(p, U)
       THEN /\ ptr' = [ptr EXCEPT ![h] = Cast(LeakedPointer(ptr[h]))]
            /\ th' = [th EXCEPT ![t] = [Idle EXCEPT !.pc = "ret",
                          !.op = "downcast", !.h = h, !.p = p, !.U = U,
                          !.old = refcount[p], !.ret = "Ok"]]
       ELSE /\ ptr' = ptr
            /\ th' = [th EXCEPT ![t] = [Idle EXCEPT !.pc = "ret",
                          !.op = "downcast", !.h = h, !.p = p, !.U = U,
                          !.old = refcount[p], !.ret = "Err"]]
    /\ UNCHANGED <<raw, refcount, mem, drops, tok, aborted, counterVars>>

\* A single thread calls operation op on the counter of build b.
Call(b, op, checks) ==
    /\ ~gone[b]
    /\ \A t \in Threads : inc[t].pc = "idle"
    /\ LET r == RunOp(b, op, cnt[b], checks) IN
       /\ cnt' = [cnt EXCEPT ![b] = r.post]
       /\ res' = [res EXCEPT ![b] = [op |-> op, pre |-> cnt[b],
                                     ret |-> r.ret, post |-> r.post]]
       /\ gone' = [gone EXCEPT ![b] = r.ret = "abort"]
    /\ UNCHANGED <<inc, arcVars>>

\* Thread t calls increment on the shared AtomicUsize: the fetch_add and the
\* branch on old_count.
IncAdd(t) ==
    /\ ~gone["sync"]
    /\ inc[t].pc = "idle"
    /\ LET old_count == cnt["sync"]
           branch == IncrementBranch(old_count)
       IN
       /\ cnt' = [cnt EXCEPT !["sync"] = WrappingAdd(old_count)]
       /\ inc' = [inc EXCEPT ![t] =
                    [pc |-> IF branch = "ok" THEN "idle"
                            ELSE IF branch = "rollback" THEN "sub" ELSE "abort",
                     old |-> old_count]]
    /\ UNCHANGED <<res, gone, arcVars>>

\* Thread t's increment rolls back: fetch_sub, then panic (the thread
\* unwinds and goes on) or abort.
IncSub(t) ==
    /\ ~gone["sync"]
    /\ inc[t].pc = "sub"
    /\ LET seen == cnt["sync"] IN
       /\ cnt' = [cnt EXCEPT !["sync"] = WrappingSub(seen)]
       /\ inc' = [inc EXCEPT ![t].pc =
                    IF RollbackBranch(seen) = "panic" THEN "idle" ELSE "abort"]
    /\ UNCHANGED <<res, gone, arcVars>>

\* Thread t's increment calls abort(): the process ends.
IncAbort(t) ==
    /\ ~gone["sync"]
    /\ inc[t].pc = "abort"
    /\ gone' = [gone EXCEPT !["sync"] = TRUE]
    /\ UNCHANGED <<cnt, res, inc, arcVars>>

\* The call returns (or unwinds) to the caller.
Return(t) ==
    /\ Running
    /\ th[t].pc = "ret"
    /\ th' = [th EXCEPT ![t] = Idle]
    /\ UNCHANGED <<raw, refcount, mem, drops, ptr, tok, aborted, counterVars>>

\* ------------------------------------------------------- specifications
Next ==
    \E t \in Threads :
        \/ \E h \in Handles : New(t, h)
        \/ \E h \in Handles : Clone(t, h)
        \/ CloneViaPin(t)
        \/ IncrementRollback(t)
        \/ \E h \in Handles : Drop(t, h)
        \/ Finalize(t)
        \/ \E h \in Handles : GetMut(t, h)
        \/ \E h \in Handles : MakeMut(t, h)
        \/ MakeMutReplace(t)
        \/ MakeMutFinalize(t)
        \/ MakeMutAcquire(t)
        \/ \E h \in Handles : TryUnwrap(t, h)
        \/ TryUnwrapRelease(t)
        \/ TryUnwrapTake(t)
        \/ TryUnwrapDropTemp(t)
        \/ TryUnwrapFree(t)
        \/ ExclusivityRead(t)
        \/ ExclusivityWrite(t)
        \/ DropExclusivity(t)
        \/ Return(t)

Spec == Init /\ [][Next]_vars

\* The handles with their raw-pointer interface: besides being made, cloned,
\* dropped and borrowed mutably, a handle is leaked to a NonNull, rebuilt
\* from it, and downcast.
NextRaw ==
    \E t \in Threads :
        \/ \E h \in Handles : New(t, h)
        \/ \E h \in Handles : Clone(t, h)
        \/ \E h \in Handles : Drop(t, h)
        \/ Finalize(t)
        \/ \E h \in Handles : GetMut(t, h)
        \/ ExclusivityRead(t)
        \/ ExclusivityWrite(t)
        \/ DropExclusivity(t)
        \/ \E h \in Handles : Leak(t, h)
        \/ \E h \in Handles : FromRaw(t, h)
        \/ \E h \in Handles, U \in Types : Downcast(t, h, U)
        \/ Return(t)

SpecRaw == Init /\ [][NextRaw]_vars

\* The counter protocol run by one thread, in each build, from every count.
InitProtocol ==
    /\ refcount = [p \in Payloads |-> 0]
    /\ mem = [p \in Payloads |-> "unalloc"]
    /\ drops = [p \in Payloads |-> 0]
    /\ ptr = [h \in Handles |-> NULL]
    /\ raw = [h \in Handles |-> NULL]
    /\ th = [t \in Threads |-> Idle]
    /\ tok = [t \in Threads |-> NoTok]
    /\ aborted = FALSE
    /\ \E c \in 0..USIZE_MAX : cnt = [b \in Builds |-> c]
    /\ res = [b \in Builds |-> NoCall]
    /\ inc = [t \in Threads |-> NoInc]
    /\ gone = [b \in Builds |-> FALSE]

NextProtocol ==
    \E b \in Builds, op \in Ops, checks \in BOOLEAN : Call(b, op, checks)

SpecProtocol == InitProtocol /\ [][NextProtocol]_vars

\* Increments only, from every count of the shared range: the threads of the
\* "sync" build on the AtomicUsize, the one thread of the other build on the
\* Cell.
InitOverflow ==
    /\ refcount = [p \in Payloads |-> 0]
    /\ mem = [p \in Payloads |-> "unalloc"]
    /\ drops = [p \in Payloads |-> 0]
    /\ ptr = [h \in Handles |-> NULL]
    /\ raw = [h \in Handles |-> NULL]
    /\ th = [t \in Threads |-> Idle]
    /\ tok = [t \in Threads |-> NoTok]
    /\ aborted = FALSE
    /\ \E c \in 1..(EXCLUSIVITY_MARKER - 1) : cnt = [b \in Builds |-> c]
    /\ res = [b \in Builds |-> NoCall]
    /\ inc = [t \in Threads |-> NoInc]
    /\ gone = [b \in Builds |-> FALSE]

NextOverflow ==
    \/ \E t \in Threads : IncAdd(t)
    \/ \E t \in Threads : IncSub(t)
    \/ \E t \in Threads : IncAbort(t)
    \/ Call("cell", "increment", FALSE)

SpecOverflow == InitOverflow /\ [][NextOverflow]_vars

\* The counts that values handed to Arc::new have besides 0: the small ones,
\* and isize::MAX and the marker, at which increment aborts and panics.
MaxPreCount == 2

PreCounts == (1..MaxPreCount) \cup {ISIZE_MAX, EXCLUSIVITY_MARKER}

\* Handles made from values whose counter need not be 0: from values that
\* increment was called on and from the values try_unwrap returns.
NextValue ==
    \E t \in Threads :
        \/ \E h \in Handles : New(t, h)
        \/ \E h \in Handles, c \in PreCounts : NewCounted(t, h, c)
        \/ \E h \in Handles : NewFromReturned(t, h)
        \/ \E h \in Handles : Clone(t, h)
        \/ \E h \in Handles : Drop(t, h)
        \/ Finalize(t)
        \/ \E h \in Handles : TryUnwrap(t, h)
        \/ ExclusivityRead(t)
        \/ ExclusivityWrite(t)
        \/ TryUnwrapRelease(t)
        \/ TryUnwrapTake(t)
        \/ TryUnwrapDropTemp(t)
        \/ TryUnwrapFree(t)
        \/ Return(t)

SpecValue == Init /\ [][NextValue]_vars

\* Handles cloned from the handles and from references to their payloads.
NextRef ==
    \E t \in Threads :
        \/ \E h \in Handles : New(t, h)
        \/ \E h \in Handles : Clone(t, h)
        \/ \E h \in Handles : CloneViaRef(t, h)
        \/ \E h \in Handles : Drop(t, h)
        \/ Finalize(t)
        \/ Return(t)

SpecRef == Init /\ [][NextRef]_vars

\* The counter protocol on one payload: the state after Arc::new, one handle
\* to the payload at address 1.
InitCounter ==
    /\ refcount = [p \in Payloads |-> IF p = 1 THEN 1 ELSE 0]
    /\ mem = [p \in Payloads |-> IF p = 1 THEN "live" ELSE "unalloc"]
    /\ drops = [p \in Payloads |-> 0]
    /\ ptr = [h \in Handles |-> IF h = 1 THEN 1 ELSE NULL]
    /\ raw = [h \in Handles |-> NULL]
    /\ th = [t \in Threads |-> Idle]
    /\ tok = [t \in Threads |-> NoTok]
    /\ aborted = FALSE
    /\ cnt = [b \in Builds |-> 0]
    /\ res = [b \in Builds |-> NoCall]
    /\ inc = [t \in Threads |-> NoInc]
    /\ gone = [b \in Builds |-> FALSE]

\* The two threads share references to the handles: they clone and drop them
\* and call the counter's safe interface (acquire_relaxed, and the drop of
\* the Exclusivity it returns) on the payload's counter.
NextCounter ==
    \E t \in Threads :
        \/ \E h \in Handles : Clone(t, h)
        \/ IncrementRollback(t)
        \/ \E h \in Handles : Drop(t, h)
        \/ Finalize(t)
        \/ \E h \in Handles : AcquireRelaxed(t, h)
        \/ ExclusivityRead(t)
        \/ ExclusivityWrite(t)
        \/ DropExclusivity(t)
        \/ Return(t)

SpecCounter == InitCounter /\ [][NextCounter]_vars

\* The counter protocol when every Exclusivity is forgotten: none is ever
\* dropped, the ExclusivePins are forgotten with mem::forget.
NextForget ==
    \E t \in Threads :
        \/ \E h \in Handles : Clone(t, h)
        \/ IncrementRollback(t)
        \/ \E h \in Handles : Drop(t, h)
        \/ Finalize(t)
        \/ \E h \in Handles : AcquireRelaxed(t, h)
        \/ \E h \in Handles : GetMut(t, h)
        \/ ExclusivityRead(t)
        \/ ExclusivityWrite(t)
        \/ Forget(t)
        \/ Return(t)

SpecForget == InitCounter /\ [][NextForget]_vars

\* ----------------------------------------------------------------- claims
\* The Exclusivity tokens installed on the counter at p.
TokensOn(p) == {t \in Threads : tok[t].p = p}

\* The duplications being rejected on p: their addition is in the counter and
\* their rollback subtraction is still to come.
Rollbacks(p) == {t \in Threads : th[t].pc = "inc_sub" /\ th[t].p = p}

\* The threads about to finalize the payload at p, or (try_unwrap) to free
\* its storage after moving the payload out.
Finalizers(p) ==
    {t \in Threads : th[t].pc \in {"dec_free", "mm_free", "tu_free"} /\ th[t].p = p}

\* The threads whose last Release was of a handle to p, with the followup
\* `followup`.
Released(p, followup) ==
    {t \in Threads : th[t].op = "drop" /\ th[t].p = p /\ th[t].ret = followup}

\* C1: for every live payload the embedded counter equals the number of
\* live handles to it; while an Exclusivity is installed the counter holds
\* the sentinel (plus one for every duplication that is being rejected and
\* has not rolled back yet, none between operations) and the token holds the
\* number of handles.
C1_CounterCountsHandles ==
    \A p \in Payloads :
        mem[p] = "live" =>
            IF TokensOn(p) # {}
            THEN /\ refcount[p] = EXCLUSIVITY_MARKER + Cardinality(Rollbacks(p))
                 /\ \A t \in TokensOn(p) : tok[t].displaced = NumHandles(p)
            ELSE refcount[p] = NumHandles(p)

\* C1 witness: a token is installed on one payload while the other payload,
\* made by make_mut's copy or by new, is live, and one was duplicated before.
C1_Witness ==
    \E p, q \in Payloads :
        /\ p # q
        /\ mem[p] = "live" /\ TokensOn(p) # {} /\ refcount[p] = EXCLUSIVITY_MARKER
        /\ mem[q] = "live" /\ NumHandles(q) = 1 /\ refcount[q] = 1
        /\ \E t \in Threads : th[t].op = "drop" /\ th[t].ret = "LeakIt"

\* C2: a payload is finalized at most once, by the Release whose decrement
\* took the counter from 1 to 0, exactly one thread finalizes it once the
\* counter is 0, and no handle, token or call refers to a finalized payload.
C2_FinalizedOnce ==
    /\ ~Dangling
    /\ \A p \in Payloads :
        /\ drops[p] = (IF mem[p] = "freed" THEN 1 ELSE 0)
        /\ \A t \in Finalizers(p) : th[t].old = 1 /\ refcount[p] = 0 /\ NumHandles(p) = 0
        /\ (mem[p] = "live" /\ refcount[p] = 0) => Cardinality(Finalizers(p)) = 1
        /\ mem[p] = "freed" => refcount[p] = 0 /\ NumHandles(p) = 0 /\ Finalizers(p) = {}

\* C2 witness: a payload was finalized by a Release that returned
\* DropOrMoveIt while the other payload is still live.
C2_Witness ==
    \E p, q \in Payloads :
        /\ mem[p] = "freed" /\ drops[p] = 1
        /\ \E t \in Threads : th[t].pc = "ret" /\ th[t].op = "drop" /\ th[t].p = p
                                /\ th[t].ret = "DropOrMoveIt"
        /\ mem[q] = "live" /\ NumHandles(q) = 1

RejectedClone(t) ==
    th[t].pc = "ret" /\ th[t].op = "clone" /\ th[t].old >= EXCLUSIVITY_MARKER

\* C4 (as claimed): between acquire's check (the load that found 1) and the
\* installation of the sentinel the counter still holds the value checked: no
\* increment or decrement of another thread lands in between.
C4_CheckAndInstallAtomic ==
    \A t \in Threads :
        th[t].pc \in {"excl_read", "excl_write"} => refcount[th[t].p] = 1

\* C5 (as claimed): while an Exclusivity on a payload is alive no duplication
\* of a handle to it has succeeded: at most the one handle exists.
C5_NoDuplicateWhileExclusive ==
    \A t \in Threads :
        tok[t] # NoTok => NumHandles(tok[t].p) <= 1

\* C9 (as claimed): the count an Exclusivity displaced is always 1.
C9_DisplacedIsOne ==
    \A t \in Threads :
        tok[t] # NoTok => tok[t].displaced = 1

\* C6 (as claimed): a Duplicate that found the token installed panics in
\* every interleaving.
C6_AlwaysPanics ==
    \A t \in Threads :
        RejectedClone(t) => th[t].ret = "panic"

\* C8 (as claimed): a Duplicate that found the sentinel, and whose rollback
\* came after the token was released, aborts.
C8_AbortsWhenReleased ==
    \A t \in Threads :
        (RejectedClone(t) /\ th[t].raced) => th[t].ret = "abort"

\* C6: a Duplicate that found the sentinel in the counter never makes a
\* handle: it panics or it aborts the process.  It panics, leaving the
\* sentinel in place, when no other thread writes the counter during the
\* call, and it aborts when the drop of the Exclusivity, writing back 1, is
\* the last write that lands between its addition and its rollback.  Right
\* after the drop of an Exclusivity that was acquired with no other thread
\* writing the counter meanwhile, the counter is 1.
C6_PanicsUnlessReleased ==
    \A t \in Threads :
        /\ (RejectedClone(t) /\ th[t].old = EXCLUSIVITY_MARKER) =>
              /\ th[t].ret \in {"panic", "abort"}
              /\ th[t].lastw = "none" =>
                    th[t].ret = "panic" /\ refcount[th[t].p] = EXCLUSIVITY_MARKER
              /\ th[t].lastw = "release" => th[t].ret = "abort"
        /\ (th[t].pc = "ret" /\ th[t].op = "drop_excl" /\ th[t].lastw = "none") =>
              refcount[th[t].p] = 1

\* A Duplicate aborted because the Exclusivity was dropped under it.
C6_Witness ==
    \E t, u \in Threads :
        /\ RejectedClone(t) /\ th[t].ret = "abort" /\ th[t].raced
        /\ th[t].old = EXCLUSIVITY_MARKER
        /\ th[u].pc = "ret" /\ th[u].op = "drop_excl" /\ th[u].p = th[t].p

\* C8: when the last write of another thread between a Duplicate's addition
\* and its rollback is the drop of an Exclusivity that writes back 1, the
\* Duplicate aborts the process.
C8_AbortsAfterRelease ==
    \A t \in Threads :
        (RejectedClone(t) /\ th[t].lastw = "release") =>
            th[t].ret = "abort" /\ aborted

\* The rollback found the 1 the release wrote back and took it to 0.
C8_Witness ==
    \E t \in Threads :
        /\ RejectedClone(t) /\ th[t].lastw = "release" /\ th[t].ret = "abort"
        /\ refcount[th[t].p] = 0 /\ NumHandles(th[t].p) >= 1

\* C10: right after the Exclusivity of a get_mut or make_mut view is dropped
\* the counter, which held the sentinel, is 1 again; and a clone that finds
\* the counter at 1 makes a handle and leaves the counter at 2.
C10_ReleaseRestores ==
    \A t \in Threads :
        /\ (th[t].pc = "ret" /\ th[t].op = "drop_excl" /\ th[t].lastw = "none") =>
              /\ th[t].old = EXCLUSIVITY_MARKER
              /\ refcount[th[t].p] = 1
              /\ NumHandles(th[t].p) = 1
        /\ (th[t].pc = "ret" /\ th[t].op = "clone" /\ th[t].old = 1
                /\ th[t].lastw = "none") =>
              /\ th[t].ret = "ok"
              /\ refcount[th[t].p] = 2
              /\ NumHandles(th[t].p) = 2

\* One thread dropped its view, then the other cloned the handle.
C10_Witness ==
    \E t, u \in Threads :
        /\ th[u].pc = "ret" /\ th[u].op = "drop_excl" /\ th[u].old = EXCLUSIVITY_MARKER
        /\ th[t].pc = "ret" /\ th[t].op = "clone" /\ th[t].p = th[u].p
        /\ th[t].old = 1 /\ th[t].ret = "ok" /\ refcount[th[t].p] = 2

\* C7 (as claimed): a Duplicate that found the counter in the sentinel range,
\* while no Exclusivity on the counter was dropped during the call, rolls its
\* addition back and panics.
C7_PanicsWhileInstalled ==
    \A t \in Threads :
        (RejectedClone(t) /\ ~th[t].raced /\ TokensOn(th[t].p) # {}) =>
            th[t].ret = "panic"

\* A try_unwrap of thread t is over.
Unwrapped(t) == th[t].pc = "ret" /\ th[t].op = "try_unwrap"

\* C11: try_unwrap returns Ok exactly when its acquire loaded 1 and Err
\* exactly when it loaded 2 or more; after Err the handle still points to the
\* same live payload, nothing was finalized, and (until another thread
\* writes the counter) the counter is the loaded value, the number of handles.
C11_TryUnwrapIffSole ==
    \A t \in Threads :
        Unwrapped(t) =>
            /\ th[t].ret \in {"Ok", "Err"}
            /\ th[t].ret = "Ok" <=> th[t].old = 1
            /\ th[t].ret = "Err" <=> th[t].old >= 2
            /\ th[t].ret = "Err" =>
                  /\ ptr[th[t].h] = th[t].p
                  /\ mem[th[t].p] = "live"
                  /\ drops[th[t].p] = 0
                  /\ th[t].lastw = "none" =>
                        /\ refcount[th[t].p] = th[t].old
                        /\ NumHandles(th[t].p) = th[t].old

\* try_unwrap of one of two handles failed.
C11_Witness ==
    \E t \in Threads :
        /\ Unwrapped(t) /\ th[t].ret = "Err" /\ th[t].old = 2
        /\ refcount[th[t].p] = 2 /\ NumHandles(th[t].p) = 2
        /\ ptr[th[t].h] = th[t].p

\* C12: after a successful try_unwrap the storage is freed with the payload
\* moved out, the payload's destructor has not run, the handle is gone and
\* no handle or Exclusivity refers to the storage; storage is freed by one
\* thread only, and nothing ever refers to storage that was freed.
C12_UnwrapMovesOut ==
    /\ ~Dangling
    /\ \A t \in Threads :
          (Unwrapped(t) /\ th[t].ret = "Ok") =>
              /\ mem[th[t].p] = "moved"
              /\ drops[th[t].p] = 0
              /\ ptr[th[t].h] = NULL
    /\ \A p \in Payloads :
          /\ Cardinality(Finalizers(p)) <= 1
          /\ mem[p] = "moved" =>
                /\ drops[p] = 0 /\ refcount[p] = 0
                /\ NumHandles(p) = 0 /\ TokensOn(p) = {} /\ Finalizers(p) = {}

\* A sole handle was unwrapped.
C12_Witness ==
    \E t \in Threads :
        /\ Unwrapped(t) /\ th[t].ret = "Ok"
        /\ mem[th[t].p] = "moved" /\ drops[th[t].p] = 0 /\ NumHandles(th[t].p) = 0

\* The handles to p after the step.
NumHandlesAfter(p) == Cardinality({h \in Handles : ptr'[h] = p})

\* Thread t takes a step of its make_mut that starts at program counter pc.
MakeMutStep(t, pc) ==
    th[t].pc = pc /\ th'[t].pc # pc /\ th'[t].op = "make_mut"

\* C13: make_mut copies the payload only when its acquire loaded 2 or more;
\* on the path without a copy no step allocates or changes a handle's
\* pointer; the copy goes to a new allocation with counter 1 that the handle
\* then points to, and the step takes exactly 1 off the original's counter;
\* make_mut always returns a view, and then the Exclusivity is installed on
\* the payload the handle points to, which has that handle only.
C13_MakeMutCopiesWhenShared ==
    /\ [](\A t \in Threads :
            /\ (th[t].op = "make_mut" /\ th[t].pc = "mm_pin") => th[t].old >= 2
            /\ (th[t].op = "make_mut" /\ th[t].pc = "ret") =>
                  /\ th[t].ret = "Some"
                  /\ tok[t].p = ptr[th[t].h] /\ tok[t].h = th[t].h
                  /\ tok[t].displaced = 1
                  /\ refcount[tok[t].p] = EXCLUSIVITY_MARKER
                  /\ NumHandles(tok[t].p) = 1)
    /\ [][\A t \in Threads :
            /\ MakeMutStep(t, "idle") =>
                  /\ refcount[ptr[th'[t].h]] = 1 <=> th'[t].pc = "excl_read"
                  /\ refcount[ptr[th'[t].h]] >= 2 <=> th'[t].pc = "mm_pin"
                  /\ ptr' = ptr /\ mem' = mem /\ refcount' = refcount
            /\ (MakeMutStep(t, "excl_read") \/ MakeMutStep(t, "excl_write")) =>
                  ptr' = ptr /\ mem' = mem
            /\ MakeMutStep(t, "mm_pin") =>
                  LET p == th[t].p
                      q == ptr'[th[t].h]
                  IN /\ ptr[th[t].h] = p /\ q # p
                     /\ mem[q] = "unalloc" /\ mem'[q] = "live"
                     /\ refcount'[q] = 1
                     /\ refcount'[p] = refcount[p] - 1
                     /\ NumHandlesAfter(p) = NumHandles(p) - 1
         ]_vars

\* make_mut returned a view on a copy while the original lives on with the
\* other handle.
C13_Witness ==
    \E t \in Threads :
        /\ th[t].op = "make_mut" /\ th[t].pc = "ret" /\ th[t].ret = "Some"
        /\ tok[t].p = 2 /\ ptr[th[t].h] = 2 /\ refcount[2] = EXCLUSIVITY_MARKER
        /\ mem[1] = "live" /\ refcount[1] = 1 /\ NumHandles(1) = 1

\* Thread t takes a step of its get_mut that starts at program counter pc.
GetMutStep(t, pc) ==
    th[t].pc = pc /\ th'[t].pc # pc /\ th'[t].op = "get_mut"

\* C14: get_mut returns a view exactly when its acquire loaded 1, and then
\* the Exclusivity is installed on the payload of the handle, which has that
\* handle only; it returns None exactly when it loaded 2 or more, and then it
\* holds no Exclusivity and the handle points where it did; the load changes
\* nothing, and no step of get_mut allocates or changes a handle's pointer.
C14_GetMutIffSole ==
    /\ [](\A t \in Threads :
            (th[t].op = "get_mut" /\ th[t].pc = "ret") =>
                /\ th[t].ret \in {"Some", "None"}
                /\ th[t].ret = "Some" <=> th[t].old = 1
                /\ th[t].ret = "None" <=> th[t].old >= 2
                /\ ptr[th[t].h] = th[t].p /\ mem[th[t].p] = "live"
                /\ th[t].ret = "Some" =>
                      /\ tok[t].p = th[t].p /\ tok[t].h = th[t].h
                      /\ tok[t].displaced = 1
                      /\ refcount[th[t].p] = EXCLUSIVITY_MARKER
                      /\ NumHandles(th[t].p) = 1
                /\ th[t].ret = "None" =>
                      /\ tok[t] = NoTok
                      /\ th[t].lastw = "none" =>
                            /\ refcount[th[t].p] = th[t].old
                            /\ NumHandles(th[t].p) = th[t].old)
    /\ [][\A t \in Threads :
            /\ GetMutStep(t, "idle") =>
                  /\ refcount[ptr[th'[t].h]] = 1 <=> th'[t].pc = "excl_read"
                  /\ refcount[ptr[th'[t].h]] # 1 <=> th'[t].pc = "ret"
                  /\ UNCHANGED <<refcount, mem, drops, ptr, tok>>
            /\ (GetMutStep(t, "excl_read") \/ GetMutStep(t, "excl_write")) =>
                  UNCHANGED <<mem, drops, ptr>>
         ]_vars

\* get_mut on one of two handles returned None.
C14_Witness ==
    \E t \in Threads :
        /\ th[t].op = "get_mut" /\ th[t].pc = "ret" /\ th[t].ret = "None"
        /\ th[t].old = 2 /\ refcount[th[t].p] = 2 /\ NumHandles(th[t].p) = 2

\* Thread t's step is an Arc::clone that makes a handle.
CloneStep(t) ==
    th[t].pc = "idle" /\ th'[t].pc = "ret" /\ th'[t].op = "clone" /\ th'[t].ret = "ok"

\* Thread t's step is the drop of one of several handles to a payload on
\* which no Exclusivity is installed.
DropDuplicateStep(t) ==
    /\ th[t].pc = "idle" /\ th'[t].pc # "idle" /\ th'[t].op = "drop"
    /\ NumHandles(th'[t].p) >= 2
    /\ TokensOn(th'[t].p) = {}

\* C15: a clone that makes a handle adds exactly 1 to the counter and a
\* handle to the payload; the drop of one of several handles takes exactly 1
\* off, says LeakIt, finalizes nothing and leaves the other handles as they
\* are; and for every count below isize::MAX, increment followed by
\* decrement gives the count back.  No handle ever points to freed storage.
C15_CloneDropRoundTrip ==
    /\ [](/\ ~Dangling
          /\ \A c \in 1..(ISIZE_MAX - 1) :
                /\ IncrementBranch(c) = "ok"
                /\ DecrementFollowup(WrappingAdd(c)) = "LeakIt"
                /\ WrappingSub(WrappingAdd(c)) = c)
    /\ [][\A t \in Threads :
            /\ CloneStep(t) =>
                  LET p == th'[t].p IN
                  /\ refcount'[p] = refcount[p] + 1
                  /\ NumHandlesAfter(p) = NumHandles(p) + 1
                  /\ ptr'[th'[t].h] = p
                  /\ \A h \in Handles : ptr[h] # NULL => ptr'[h] = ptr[h]
                  /\ UNCHANGED <<mem, drops>>
            /\ DropDuplicateStep(t) =>
                  LET p == th'[t].p IN
                  /\ refcount'[p] = refcount[p] - 1
                  /\ NumHandlesAfter(p) = NumHandles(p) - 1
                  /\ th'[t].ret = "LeakIt" /\ th'[t].pc = "ret"
                  /\ mem'[p] = "live"
                  /\ UNCHANGED <<mem, drops>>
         ]_vars

\* One thread cloned the handle, the other dropped one of the two handles:
\* the counter is 1 again and the payload is live.
C15_Witness ==
    \E t, u \in Threads :
        /\ th[u].pc = "ret" /\ th[u].op = "clone" /\ th[u].ret = "ok" /\ th[u].old = 1
        /\ th[t].pc = "ret" /\ th[t].op = "drop" /\ th[t].p = th[u].p
        /\ th[t].ret = "LeakIt" /\ th[t].old = 2
        /\ refcount[th[t].p] = 1 /\ NumHandles(th[t].p) = 1 /\ mem[th[t].p] = "live"

\* The leaked pointers to p that were not made handles again.
RawsTo(p) == {h \in Handles : raw[h] = p}

\* The handles and leaked pointers to p.
NumOwners(p) == NumHandles(p) + Cardinality(RawsTo(p))

\* Thread t's step is a downcast.
DowncastStep(t) == th[t].pc = "idle" /\ th'[t].op = "downcast"

\* C16: a downcast to the payload's concrete type returns Ok, to any other
\* type Err; either way the handle variable holds the same pointer and the
\* counter, the storage and every other handle are as before; a payload is
\* finalized once, by the Release that took the counter from 1 to 0, when no
\* handle and no leaked pointer to it is left, and never while one is.
C16_DowncastKeepsCount ==
    /\ [](/\ ~Dangling
          /\ \A t \in Threads :
                th[t].op = "downcast" =>
                    /\ th[t].ret \in {"Ok", "Err"}
                    /\ th[t].ret = "Ok" <=> th[t].U = TypeOf(th[t].p)
          /\ \A p \in Payloads :
                /\ drops[p] = (IF mem[p] = "freed" THEN 1 ELSE 0)
                /\ mem[p] = "freed" => NumOwners(p) = 0 /\ refcount[p] = 0
                /\ (mem[p] = "live" /\ NumOwners(p) = 0)
                        => Cardinality(Finalizers(p)) = 1
                /\ \A t \in Finalizers(p) : th[t].old = 1 /\ NumOwners(p) = 0)
    /\ [][\A t \in Threads :
            DowncastStep(t) =>
                /\ ptr'[th'[t].h] = ptr[th'[t].h]
                /\ ptr[th'[t].h] = th'[t].p
                /\ UNCHANGED <<ptr, raw, refcount, mem, drops, tok>>
         ]_vars

\* C16 witness: of two handles to one payload, one was downcast to the
\* payload's type (Ok) and the other to the other type (Err), the counter
\* still 2, while the other payload was finalized once.
C16_Witness ==
    \E t, u \in Threads, q \in Payloads :
        /\ th[t].pc = "ret" /\ th[t].op = "downcast" /\ th[t].ret = "Ok"
        /\ th[u].pc = "ret" /\ th[u].op = "downcast" /\ th[u].ret = "Err"
        /\ th[t].p = th[u].p /\ th[t].h # th[u].h
        /\ refcount[th[t].p] = 2 /\ NumHandles(th[t].p) = 2
        /\ q # th[t].p /\ mem[q] = "freed" /\ drops[q] = 1

\* Thread t's step is a leak, a from_raw.
LeakStep(t) == th[t].pc = "idle" /\ th'[t].op = "leak"

FromRawStep(t) == th[t].pc = "idle" /\ th'[t].op = "from_raw"

\* C20: leak and from_raw leave the counter, the storage and the tokens as
\* they are and only turn a handle into a leaked pointer to the same payload
\* or back; counting a leaked pointer for the handle it came from, the
\* counter of every live payload is the number of its handles, and a payload
\* is finalized at most once and only when no handle and no leaked pointer
\* to it is left.
C20_LeakFromRawKeepCount ==
    /\ [](/\ ~Dangling
          /\ \A p \in Payloads :
                /\ mem[p] = "live" =>
                      IF TokensOn(p) # {}
                      THEN /\ refcount[p] = EXCLUSIVITY_MARKER
                           /\ \A t \in TokensOn(p) : tok[t].displaced = NumOwners(p)
                      ELSE refcount[p] = NumOwners(p)
                /\ drops[p] <= 1
                /\ drops[p] = 1 <=> mem[p] = "freed"
                /\ mem[p] = "freed" => NumOwners(p) = 0)
    /\ [][\A t \in Threads :
            /\ LeakStep(t) =>
                  /\ raw' = [raw EXCEPT ![th'[t].h] = th'[t].p]
                  /\ ptr' = [ptr EXCEPT ![th'[t].h] = NULL]
                  /\ ptr[th'[t].h] = th'[t].p
                  /\ UNCHANGED <<refcount, mem, drops, tok>>
            /\ FromRawStep(t) =>
                  /\ ptr' = [ptr EXCEPT ![th'[t].h] = th'[t].p]
                  /\ raw' = [raw EXCEPT ![th'[t].h] = NULL]
                  /\ raw[th'[t].h] = th'[t].p
                  /\ UNCHANGED <<refcount, mem, drops, tok>>
         ]_vars

\* C20 witness: one payload is kept alive by a leaked pointer alone, its
\* counter 1, while the handle to the other payload was leaked and rebuilt
\* by from_raw, its counter again the number of its handles.
C20_Witness ==
    \E t, u \in Threads :
        /\ th[t].pc = "ret" /\ th[t].op = "leak"
        /\ mem[th[t].p] = "live" /\ NumHandles(th[t].p) = 0
        /\ Cardinality(RawsTo(th[t].p)) = 1 /\ refcount[th[t].p] = 1
        /\ th[u].pc = "ret" /\ th[u].op = "from_raw" /\ th[u].p # th[t].p
        /\ mem[th[u].p] = "live" /\ RawsTo(th[u].p) = {}
        /\ refcount[th[u].p] = 1 /\ NumHandles(th[u].p) = 1

\* The increments in progress on the AtomicUsize that will abort.
Aborting == {t \in Threads : inc[t].pc = "abort"}

\* The step is thread t's fetch_add in increment.
IncAddStep(t) ==
    /\ inc[t].pc = "idle"
    /\ inc'[t].old = cnt["sync"]
    /\ cnt'["sync"] = WrappingAdd(cnt["sync"])
    /\ \A u \in Threads \ {t} : inc'[u] = inc[u]

\* C17: starting from a count of the shared range and incrementing only, the
\* counter never reaches usize::MAX, so that no addition wraps; with the
\* "sync" feature it is in the exclusivity range only while an increment that
\* read a count from isize::MAX up is about to abort or has aborted, every
\* increment that reads a count from isize::MAX up to below the marker
\* aborts, and an increment that returned read a count below isize::MAX;
\* without the feature the count stays below the marker and the increment
\* that reads the marker minus one aborts.
C17_IncrementNeverWraps ==
    /\ [](/\ \A b \in Builds : cnt[b] < USIZE_MAX
          /\ cnt["sync"] <= EXCLUSIVITY_MARKER - 1
                              + Cardinality({t \in Threads : inc[t].pc # "idle"})
          /\ cnt["sync"] >= EXCLUSIVITY_MARKER => Aborting # {}
          /\ gone["sync"] => Aborting # {}
          /\ \A t \in Aborting : /\ inc[t].old >= ISIZE_MAX
                                  /\ inc[t].old < EXCLUSIVITY_MARKER
          /\ cnt["cell"] < EXCLUSIVITY_MARKER
          /\ res["cell"].ret = "abort" <=> gone["cell"]
          /\ res["cell"].op = "increment" =>
                /\ res["cell"].ret = "abort"
                        <=> res["cell"].pre = EXCLUSIVITY_MARKER - 1
                /\ res["cell"].ret = "ok"
                        <=> res["cell"].pre < EXCLUSIVITY_MARKER - 1)
    /\ [][/\ \A b \in Builds : ~(cnt[b] = USIZE_MAX /\ cnt'[b] = 0)
          /\ \A t \in Threads :
                IncAddStep(t) =>
                    /\ (cnt["sync"] >= ISIZE_MAX
                            /\ cnt["sync"] < EXCLUSIVITY_MARKER)
                        => inc'[t].pc = "abort"
                    /\ cnt["sync"] < ISIZE_MAX => inc'[t].pc = "idle"
         ]_vars

\* C17 witness: both processes aborted: with the "sync" feature one thread
\* read the marker minus one and aborted, leaving the marker, and the other
\* read the marker, rolled back and panicked; without the feature the
\* increment at the marker minus one aborted.
C17_Witness ==
    /\ gone["sync"] /\ gone["cell"]
    /\ cnt["sync"] = EXCLUSIVITY_MARKER
    /\ \E t, u \in Threads :
        /\ inc[t].pc = "abort" /\ inc[t].old = EXCLUSIVITY_MARKER - 1
        /\ inc[u].pc = "idle" /\ inc[u].old = EXCLUSIVITY_MARKER
    /\ res["cell"].op = "increment" /\ res["cell"].pre = EXCLUSIVITY_MARKER - 1
    /\ cnt["cell"] = EXCLUSIVITY_MARKER - 1

\* The outcome and the count left that are recorded for the last call on the
\* counter of build b.
Outcome(b) == [ret |-> res[b].ret, post |-> res[b].post]

\* What decrement does from the count before the last call on build b, for
\* either setting of the overflow checks.
DecrementOutcomes(b) ==
    {DecrementCall(b, res[b].pre, checks) : checks \in BOOLEAN}

\* C18 as stated: whatever the count before it, a decrement_relaxed does not
\* abort and has the outcome and leaves the count that decrement has and
\* leaves from that count.
C18_RelaxedIdentical ==
    \A b \in Builds :
        res[b].op = "decrement_relaxed" =>
            /\ res[b].ret # "abort"
            /\ Outcome(b) \in DecrementOutcomes(b)

\* C18, amended: from a count below the marker decrement_relaxed has the
\* outcome and leaves the count that decrement has and leaves, and does not
\* abort; from a count in the exclusivity range it leaves the count that
\* decrement leaves but aborts, where decrement returns LeakIt.
C18_RelaxedIdenticalBelowMarker ==
    \A b \in Builds :
        res[b].op = "decrement_relaxed" =>
            IF res[b].pre < EXCLUSIVITY_MARKER
            THEN /\ res[b].ret \in {"LeakIt", "DropOrMoveIt", "panic"}
                 /\ res[b].ret = "panic" => b = "cell" /\ res[b].pre = 0
                 /\ Outcome(b) \in DecrementOutcomes(b)
            ELSE /\ res[b].ret = "abort" /\ gone[b]
                 /\ DecrementOutcomes(b) =
                        {[ret |-> "LeakIt", post |-> res[b].post]}
                 /\ res[b].post = WrappingSub(res[b].pre)

\* C18 witness: a decrement_relaxed from the marker aborted in one build and
\* one from 1 returned DropOrMoveIt, leaving 0, in the other.
C18_Witness ==
    \E b, d \in Builds :
        /\ res[b].op = "decrement_relaxed" /\ res[b].pre = EXCLUSIVITY_MARKER
        /\ res[b].ret = "abort"
        /\ res[d].op = "decrement_relaxed" /\ res[d].pre = 1
        /\ res[d].ret = "DropOrMoveIt" /\ cnt[d] = 0

\* The last calls on the two counters were the same operation from the same
\* count.
SameCall ==
    /\ res["sync"].op # "none"
    /\ res["sync"].op = res["cell"].op
    /\ res["sync"].pre = res["cell"].pre

\* C19 as stated: the same operation from the same count has the same outcome
\* and leaves the same count with and without the "sync" feature.
C19_BuildsIdentical ==
    SameCall => Outcome("sync") = Outcome("cell")

\* C19, amended: decrement and decrement_relaxed from a count other than 0,
\* acquire from any count and increment from a count below isize::MAX or from
\* the marker up to below usize::MAX have the same outcome and leave the same
\* count in both builds, and increment from the marker minus one aborts in
\* both; from isize::MAX up to the marker minus two increment aborts with the
\* feature and returns, the count one higher, without it; from usize::MAX it
\* aborts with the feature and panics without it; decrement from 0 wraps
\* with the feature and wraps or panics without it.
C19_BuildsAgreeInRange ==
    SameCall =>
        LET op == res["sync"].op
            pre == res["sync"].pre
        IN
        /\ op = "acquire" => Outcome("sync") = Outcome("cell")
        /\ op \in {"decrement", "decrement_relaxed"} =>
              IF pre # 0 THEN Outcome("sync") = Outcome("cell")
              ELSE /\ Outcome("sync") = [ret |-> "LeakIt", post |-> USIZE_MAX]
                   /\ Outcome("cell") \in {Outcome("sync"),
                                            [ret |-> "panic", post |-> 0]}
        /\ op = "increment" =>
              IF pre < ISIZE_MAX
              THEN /\ Outcome("sync") = [ret |-> "ok", post |-> pre + 1]
                   /\ Outcome("cell") = Outcome("sync")
              ELSE IF pre < EXCLUSIVITY_MARKER - 1
              THEN /\ res["sync"].ret = "abort"
                   /\ Outcome("cell") = [ret |-> "ok", post |-> pre + 1]
              ELSE IF pre = EXCLUSIVITY_MARKER - 1
              THEN res["sync"].ret = "abort" /\ res["cell"].ret = "abort"
              ELSE IF pre < USIZE_MAX
              THEN /\ Outcome("sync") = [ret |-> "panic", post |-> pre]
                   /\ Outcome("cell") = Outcome("sync")
              ELSE /\ res["sync"].ret = "abort"
                   /\ Outcome("cell") = [ret |-> "panic", post |-> pre]

\* C19 witness: an increment from isize::MAX aborted with the "sync" feature
\* and returned without it, the count one higher.
C19_Witness ==
    /\ SameCall
    /\ res["sync"].op = "increment" /\ res["sync"].pre = ISIZE_MAX
    /\ res["sync"].ret = "abort" /\ gone["sync"]
    /\ res["cell"].ret = "ok" /\ cnt["cell"] = ISIZE_MAX + 1 /\ ~gone["cell"]

\* The step is thread t's Arc::new.
NewStep(t) == th'[t].op = "new" /\ th[t].pc = "idle"

\* What the counter at p holds beyond the handles to p.
Excess(p) == refcount[p] - NumHandles(p)

\* C21: Arc::new on a value counting c below isize::MAX is not rejected and
\* makes one handle to a new payload whose counter is c + 1, 1 for c = 0;
\* a live payload whose counter exceeds the number of its handles stays
\* live, unfinalized and with that excess whatever is done with its handles,
\* so that with all handles released its counter is the c it was made with;
\* only a counter that reached 0 is finalized.
C21_ConstructCounts ==
    /\ [](/\ ~Dangling
          /\ \A t \in Threads :
                (th[t].op = "new" /\ th[t].old < ISIZE_MAX) => th[t].ret = "ok"
          /\ \A p \in Payloads :
                /\ Finalizers(p) # {} => refcount[p] = 0
                /\ mem[p] \in {"freed", "moved"} => refcount[p] = 0
                /\ drops[p] = (IF mem[p] = "freed" THEN 1 ELSE 0))
    /\ [][/\ \A t \in Threads :
                (NewStep(t) /\ th'[t].ret = "ok") =>
                    LET p == th'[t].p IN
                    /\ mem[p] = "unalloc" /\ mem'[p] = "live"
                    /\ refcount'[p] = th'[t].old + 1
                    /\ NumHandlesAfter(p) = 1 /\ ptr'[th'[t].h] = p
          /\ \A p \in Payloads :
                (mem[p] = "live" /\ TokensOn(p) = {} /\ Excess(p) > 0) =>
                    /\ mem'[p] = "live" /\ drops'[p] = 0
                    /\ refcount'[p] - NumHandlesAfter(p) = Excess(p)
         ]_vars

\* C21 witness: a payload made from a value counting 1 has lost all its
\* handles, the last Release said LeakIt, and it is live with counter 1,
\* while the other payload, made from a value counting 0, was finalized.
C21_Witness ==
    \E p, q \in Payloads, t \in Threads :
        /\ mem[p] = "live" /\ NumHandles(p) = 0 /\ refcount[p] = 1
        /\ th[t].pc = "ret" /\ th[t].op = "drop" /\ th[t].p = p
        /\ th[t].ret = "LeakIt" /\ th[t].old = 2
        /\ mem[q] = "freed" /\ drops[q] = 1

\* The step is Arc::new on the value thread t's try_unwrap returned.
RewrapStep(t) == th'[t].op = "new_returned" /\ th[t].op = "try_unwrap"

\* C26: the value a successful try_unwrap returns counts 0, its old
\* allocation is gone, and Arc::new on it is not rejected and makes one handle
\* to a new payload whose counter is 1.
C26_UnwrapNewRoundTrip ==
    /\ [](\A t \in Threads :
            /\ (th[t].op = "try_unwrap" /\ th[t].pc = "ret" /\ th[t].ret = "Ok") =>
                  /\ th[t].val = 0 /\ th[t].old = 1
                  /\ mem[th[t].p] = "moved" /\ NumHandles(th[t].p) = 0
            /\ th[t].op = "new_returned" =>
                  th[t].old = 0 /\ th[t].ret = "ok")
    /\ [][\A t \in Threads :
            RewrapStep(t) =>
                LET q == th'[t].p IN
                /\ q # th[t].p
                /\ mem[q] = "unalloc" /\ mem'[q] = "live"
                /\ refcount'[q] = 1
                /\ NumHandlesAfter(q) = 1 /\ ptr'[th'[t].h] = q
         ]_vars

\* C26 witness: the value unwrapped from one payload, whose storage is gone,
\* was made a handle again: a new payload with one handle and counter 1.
C26_Witness ==
    \E t \in Threads, p \in Payloads :
        /\ th[t].pc = "ret" /\ th[t].op = "new_returned" /\ th[t].ret = "ok"
        /\ mem[p] = "moved" /\ p # th[t].p
        /\ mem[th[t].p] = "live" /\ refcount[th[t].p] = 1
        /\ NumHandles(th[t].p) = 1

\* The step is thread t's clone of a handle view made from a payload
\* reference, and it returns.
CloneRefStep(t) ==
    th[t].pc = "idle" /\ th'[t].op = "clone_ref" /\ th'[t].ret = "ok"

\* C22: the clone of a handle view made from a reference to a handle's
\* payload is a handle to that payload and adds 1 to its counter, leaving
\* the other handles and the storage as they are; the counter of a live
\* payload is the number of its handles, whichever way they were cloned; a
\* payload with a handle is live, and it is finalized once, by the Release
\* that took the counter from 1 to 0, when no handle is left.
C22_CloneFromRefShares ==
    /\ [](/\ ~Dangling
          /\ \A p \in Payloads :
                /\ mem[p] = "live" => refcount[p] = NumHandles(p)
                /\ NumHandles(p) >= 1 => mem[p] = "live" /\ drops[p] = 0
                /\ drops[p] = (IF mem[p] = "freed" THEN 1 ELSE 0)
                /\ \A t \in Finalizers(p) : th[t].old = 1 /\ NumHandles(p) = 0
                /\ (mem[p] = "live" /\ NumHandles(p) = 0)
                        => Cardinality(Finalizers(p)) = 1)
    /\ [][\A t \in Threads :
            CloneRefStep(t) =>
                LET p == th'[t].p IN
                /\ mem[p] = "live" /\ NumHandles(p) >= 1
                /\ refcount'[p] = refcount[p] + 1
                /\ ptr[th'[t].h] = NULL /\ ptr'[th'[t].h] = p
                /\ NumHandlesAfter(p) = NumHandles(p) + 1
                /\ \A h \in Handles : ptr[h] # NULL => ptr'[h] = ptr[h]
                /\ UNCHANGED <<mem, drops>>
         ]_vars

\* C22 witness: one thread cloned the view made from the payload reference
\* of the first handle, the other then dropped the first handle and was told
\* LeakIt: the payload is live, with the clone as its only handle.
C22_Witness ==
    \E t, u \in Threads :
        /\ th[u].pc = "ret" /\ th[u].op = "clone_ref" /\ th[u].ret = "ok"
        /\ th[u].old = 1
        /\ th[t].pc = "ret" /\ th[t].op = "drop" /\ th[t].p = th[u].p
        /\ th[t].ret = "LeakIt" /\ th[t].old = 2
        /\ HandlesTo(th[u].p) = {th[u].h}
        /\ mem[th[u].p] = "live" /\ refcount[th[u].p] = 1

\* The step is the second acquire of thread t's make_mut.
SecondAcquireStep(t) == th[t].pc = "mm_load" /\ th'[t].pc # "mm_load"

\* C25: the second acquire of make_mut, on the handle to the copy, loads 1
\* and goes on to install the Exclusivity: the copy has that one handle and
\* no make_mut panics, whatever the other thread does meanwhile.
C25_SecondAcquireSucceeds ==
    /\ [](\A t \in Threads :
            /\ th[t].op = "make_mut" => th[t].ret # "panic"
            /\ th[t].pc = "mm_load" =>
                  /\ ptr[th[t].h] = th[t].p /\ mem[th[t].p] = "live"
                  /\ refcount[th[t].p] = 1 /\ HandlesTo(th[t].p) = {th[t].h}
                  /\ TokensOn(th[t].p) = {})
    /\ [][\A t \in Threads :
            SecondAcquireStep(t) =>
                /\ th'[t].pc = "excl_read" /\ th'[t].old = 1
                /\ th'[t].p = th[t].p /\ th'[t].h = th[t].h
                /\ UNCHANGED <<refcount, mem, drops, ptr, tok, aborted>>
         ]_vars

\* C25 witness: a make_mut that copied returned its view on the copy, and
\* during the call the other thread released the other handle to the
\* original, which was finalized.
C25_Witness ==
    \E t, u \in Threads :
        /\ th[t].op = "make_mut" /\ th[t].pc = "ret" /\ th[t].ret = "Some"
        /\ th[t].p = 2 /\ tok[t].p = 2 /\ tok[t].displaced = 1
        /\ th[u].op = "drop" /\ th[u].pc = "ret" /\ th[u].p = 1
        /\ mem[1] = "freed" /\ drops[1] = 1

\* C24 (as claimed): a counter has at most one Exclusivity at a time, and an
\* acquire that returned an Exclusivity did so while no other thread held one
\* on the counter.
C24_OneTokenPerCounter ==
    /\ \A p \in Payloads : Cardinality(TokensOn(p)) <= 1
    /\ \A t \in Threads :
        (th[t].pc = "ret" /\ th[t].op = "acquire_relaxed" /\ th[t].ret = "Some")
            => TokensOn(th[t].p) \subseteq {t}

\* Thread t's call is over, and it began after the Exclusivity that another
\* thread forgot was installed on its counter: the Exclusivity is there and
\* no other thread wrote the counter during the call.
AfterForgotten(t) ==
    /\ th[t].pc = "ret"
    /\ TokensOn(th[t].p) \ {t} # {}
    /\ th[t].lastw = "none"

\* C23 (as claimed): once an Exclusivity on a counter is forgotten, every
\* later acquire_relaxed on the counter returns None and every later clone
\* of a handle panics.
C23_ForgottenBlocksForever ==
    \A t \in Threads :
        AfterForgotten(t) =>
            /\ th[t].op \in {"acquire_relaxed", "get_mut"} => th[t].ret = "None"
            /\ th[t].op = "clone" => th[t].ret = "panic"

====
